---- MODULE Spec2Model ----
(***************************************************************************)
(* MetricsPulse: the Stripe webhook endpoint                               *)
(* (src/src/app/api/webhooks/stripe/route.ts) and the metrics              *)
(* recalculation endpoint (src/unnamed/part_006) with the metrics table of *)
(* the database schema (src/unnamed/part_009); the API client's            *)
(* retryRequest (src/src/lib/api.ts) and the useOfflineHandler hook        *)
(* (src/unnamed/part_009), each under a specification of its own.          *)
(*                                                                         *)
(* Time is Date.now(), in milliseconds.  A request is a sequence of steps  *)
(* separated by the awaits of its handler; the steps of concurrent         *)
(* requests interleave, and the code between two awaits is one step.       *)
(***************************************************************************)
EXTENDS Integers, Sequences, FiniteSets, TLC

\* ------------------------------------------------------------------ bounds
\* Concurrent webhook deliveries.
MaxReqs == 2
\* Times the clock may jump by one of Gaps (time spent in I/O or between requests).
MaxPasses == 2
\* Concurrent recalculation requests (POST /api/metrics).
MaxCalls == 2
\* Times the clock may jump by one of MetricGaps in the recalculation runs.
MaxJumps == 2
\* Runs of the calculation over one provider answer.
MaxRuns == 2
\* Provider statuses mapped in one run of mapStripeStatus alone.
MaxMapped == 2
\* The largest maxRetries given to retryRequest.
MaxRetriesTried == 3
\* Actions queued with queueAction, and calls of queued actions, in one run
\* of useOfflineHandler.
MaxQueued == 3
MaxExecutions == 4

\* ------------------------------------------------------- program constants
MAX_PROCESSING_TIME == 30000
MAX_RETRY_ATTEMPTS_four == 3 + 1
MAX_RETRY_ATTEMPTS == 3
WEBHOOK_IDEMPOTENCY_WINDOW == 24 * 60 * 60 * 1000
\* processedEvents.size > 1000
CompactionThreshold == 1000
\* body.length > 1024 * 1024
MaxBodyLength == 1024 * 1024
\* api.ts: parseInt(process.env.API_RETRIES || '3')
MAX_RETRIES == 3

VARIABLES
    now,              \* Date.now()
    passes,           \* clock jumps taken so far (bounded by MaxPasses)
    processedEvents,  \* the module-level Map<string, number>: event id -> timestamp
    subscriptions,    \* rows of the subscriptions table, in insertion order
    checks,           \* idempotency checks performed so far (numbers them)
    req,              \* the webhook deliveries, one record per request
    metrics,          \* rows of the metrics table, in insertion order
    call,             \* the recalculation requests, one record per request
    sample,           \* what Stripe returns, for the runs of the calculation alone
    runs,             \* the metrics computed from sample, one entry per run
    mapped,           \* the provider statuses given to mapStripeStatus, with its results
    retry,            \* one invocation of the API client's retryRequest
    handler           \* one mounted useOfflineHandler: its state and its running loop

webVars == <<processedEvents, subscriptions, checks, req>>
metVars == <<metrics, call>>
calcVars == <<sample, runs>>
libVars == <<mapped, retry, handler>>
vars == <<now, passes, processedEvents, subscriptions, checks, req, metrics, call,
          sample, runs, mapped, retry, handler>>

Reqs == 1..MaxReqs

\* ------------------------------------------------------------------ inputs
EventIds == {"evt_1", "evt_2"}

\* The event types the switch of processWebhookEvent maps to a handler.
SubscriptionTypes ==
    {"customer.subscription.created", "customer.subscription.updated",
     "customer.subscription.deleted", "customer.subscription.paused",
     "customer.subscription.resumed"}
InvoiceTypes ==
    {"invoice.payment_succeeded", "invoice.payment_failed", "invoice.finalized"}
CustomerTypes == {"customer.created", "customer.updated", "customer.deleted"}
PriceTypes == {"price.created", "price.updated", "price.deleted"}
MappedTypes == SubscriptionTypes \cup InvoiceTypes \cup CustomerTypes \cup PriceTypes

\* Event types Stripe sends that the switch does not map.
UnmappedTypes ==
    {"charge.succeeded", "invoice.created", "customer.subscription.trial_will_end"}

\* event.type.includes(word), for the two words the code asks about.
Includes(type, word) ==
    CASE word = "subscription" ->
            type \in SubscriptionTypes \cup {"customer.subscription.trial_will_end"}
      [] word = "invoice" -> type \in InvoiceTypes \cup {"invoice.created"}
      [] OTHER -> FALSE

\* Stripe customers: cus_A has a row in connections, cus_B has none.
LinkedCustomers == {"cus_A"}

\* The workspace_id of the connections row whose stripe_user_id is the customer.
WorkspaceOf(customer) == IF customer \in LinkedCustomers THEN "ws_1" ELSE "none"

\* event.data.object: "none" when absent, else the fields the handlers read.
NoObject == [present |-> FALSE, id |-> "none", customer |-> "none"]
Obj(i, c) == [present |-> TRUE, id |-> i, customer |-> c]

Delivery(ua, ct, sig, readable, len, id, type, obj) ==
    [ua |-> ua, ct |-> ct, sig |-> sig, readable |-> readable, len |-> len,
     id |-> id, type |-> type, obj |-> obj]

Signed(id, type, obj) == Delivery(TRUE, TRUE, "valid", TRUE, 100, id, type, obj)

\* Deliveries that pass every request check and verify.
ValidDeliveries ==
    {Signed("evt_1", "customer.subscription.updated", o) :
        o \in {Obj("sub_1", "cus_A"), Obj("sub_1", "cus_B"), Obj("sub_1", "none"),
               NoObject}}
    \cup {Signed("evt_1", "customer.created", Obj("cus_A", "none"))}
    \cup {Signed("evt_1", t, Obj("obj_1", "cus_A")) : t \in UnmappedTypes}
    \cup {Signed("evt_2", "invoice.payment_failed", Obj("in_1", "cus_A"))}

\* Deliveries that fail a request check or the signature verification.
RejectedDeliveries ==
    LET e == "evt_1"
        t == "customer.subscription.updated"
        o == Obj("sub_1", "cus_A")
    IN  { Delivery(FALSE, TRUE, "valid", TRUE, 100, e, t, o),
          Delivery(FALSE, TRUE, "missing", TRUE, 100, e, t, o),
          Delivery(TRUE, FALSE, "valid", TRUE, 100, e, t, o),
          Delivery(TRUE, TRUE, "missing", TRUE, 100, e, t, o),
          Delivery(TRUE, TRUE, "valid", FALSE, 100, e, t, o),
          Delivery(TRUE, TRUE, "valid", TRUE, MaxBodyLength + 1, e, t, o),
          Delivery(TRUE, TRUE, "invalid", TRUE, MaxBodyLength + 1, e, t, o),
          Delivery(TRUE, TRUE, "invalid", TRUE, 100, e, t, o) }

Deliveries == ValidDeliveries \cup RejectedDeliveries

\* Clock jumps: exactly the processing budget, exactly the idempotency window.
Gaps == {MAX_PROCESSING_TIME, WEBHOOK_IDEMPOTENCY_WINDOW}

\* ------------------------------------------------------------ the requests
NoDelivery == Signed("evt_1", "charge.succeeded", NoObject)

Fresh ==
    [pc |-> "idle", dlv |-> NoDelivery, startTime |-> 0, retryCount |-> 0,
     wakeAt |-> 0, status |-> 0, body |-> "none",
     \* what the request did, for the properties:
     order |-> 0, checkedAt |-> 0, wrote |-> FALSE, outcomes |-> <<>>,
     startedAt |-> <<>>, waits |-> <<>>, handlerRuns |-> 0, recalcs |-> 0,
     rows |-> 0]

Respond(r, status, body) == [r EXCEPT !.pc = "done", !.status = status, !.body = body]

Max2(a, b) == IF a >= b THEN a ELSE b

\* stripe.webhooks.constructEvent(body, sig, secret) returns the event when the
\* signature header verifies against the raw body, and throws otherwise.
SignatureVerifies_unchecked(d) == TRUE
SignatureVerifies(d) == d.sig = "valid"

\* The response after the last failed attempt: 200, received, processing_failed.
FailureResponse_propagated(a) == Respond(a, 500, "internal_error")
FailureResponse(a) == Respond(a, 200, "processing_failed")

\* Bodies that carry received: true.
Received(body) == body \in {"success", "duplicate", "processing_failed"}

\* ------------------------------------------------------- idempotency cache
IsDuplicate_never(cache, id, t) == FALSE

IsDuplicate_reversed(cache, id, t) ==
    /\ id \in DOMAIN cache
    /\ cache[id] # 0
    /\ (t - cache[id]) > WEBHOOK_IDEMPOTENCY_WINDOW

\* const lastProcessed = processedEvents.get(eventId)
\* if (lastProcessed && (Date.now() - lastProcessed) < WEBHOOK_IDEMPOTENCY_WINDOW)
IsDuplicate(cache, id, t) ==
    /\ id \in DOMAIN cache
    /\ cache[id] # 0
    /\ (t - cache[id]) < WEBHOOK_IDEMPOTENCY_WINDOW

Record_skipped(cache, id, t) == cache

\* processedEvents.set(eventId, Date.now())
Record(cache, id, t) == [i \in DOMAIN cache \cup {id} |-> IF i = id THEN t ELSE cache[i]]

\* The cache after a delivery found to be a duplicate: the handler returns
\* before processedEvents.set.
AfterDuplicate_refreshed(cache, id, t) ==
    [i \in DOMAIN cache \cup {id} |-> IF i = id THEN t ELSE cache[i]]
AfterDuplicate(cache, id, t) == cache

Compact_recent(cache, t) ==
    IF Cardinality(DOMAIN cache) > CompactionThreshold
    THEN LET cutoff == t - WEBHOOK_IDEMPOTENCY_WINDOW
             keep == {i \in DOMAIN cache : cache[i] < cutoff}
         IN  [i \in keep |-> cache[i]]
    ELSE cache

\* if (processedEvents.size > 1000) delete every entry with timestamp < cutoff
Compact(cache, t) ==
    IF Cardinality(DOMAIN cache) > CompactionThreshold
    THEN LET cutoff == t - WEBHOOK_IDEMPOTENCY_WINDOW
             keep == {i \in DOMAIN cache : ~(cache[i] < cutoff)}
         IN  [i \in keep |-> cache[i]]
    ELSE cache

\* ---------------------------------------------------------- event handling
NoWrite == [write |-> FALSE, sub |-> "none", user |-> "none"]

HandleSubscriptionEvent_strict(o, upsertOk) ==
    IF o.id = "none" \/ o.customer = "none"
    THEN [error |-> "validation", row |-> NoWrite]
    ELSE IF o.customer \notin LinkedCustomers
    THEN [error |-> "not_found", row |-> NoWrite]
    ELSE IF ~upsertOk
    THEN [error |-> "database", row |-> NoWrite]
    ELSE [error |-> "none",
          row |-> [write |-> TRUE, sub |-> o.id, user |-> o.customer]]

\* handleSubscriptionEvent: validate, find the connection, upsert the row.
\* (A failed connection lookup takes the same branch as a lookup with no row.)
HandleSubscriptionEvent(o, upsertOk) ==
    IF o.id = "none" \/ o.customer = "none"
    THEN [error |-> "validation", row |-> NoWrite]
    ELSE IF o.customer \notin LinkedCustomers
    THEN [error |-> "none", row |-> NoWrite]
    ELSE IF ~upsertOk
    THEN [error |-> "database", row |-> NoWrite]
    ELSE [error |-> "none",
          row |-> [write |-> TRUE, sub |-> o.id, user |-> o.customer]]

\* handleInvoiceEvent: validate and log.
HandleInvoiceEvent(o) ==
    IF o.id = "none" \/ o.customer = "none"
    THEN [error |-> "validation", row |-> NoWrite]
    ELSE [error |-> "none", row |-> NoWrite]

\* handleCustomerEvent and handlePriceEvent: validate the id and log.
HandleIdOnlyEvent(o) ==
    IF o.id = "none"
    THEN [error |-> "validation", row |-> NoWrite]
    ELSE [error |-> "none", row |-> NoWrite]

\* The switch of processWebhookEvent.
Route(type) ==
    CASE type \in SubscriptionTypes -> "subscription"
      [] type \in InvoiceTypes -> "invoice"
      [] type \in CustomerTypes -> "customer"
      [] type \in PriceTypes -> "price"
      [] OTHER -> "unhandled"

\* if (event.type.includes('subscription') || event.type.includes('invoice'))
NeedsRecalculation(type) == Includes(type, "subscription") \/ Includes(type, "invoice")

\* processWebhookEvent: route, run the handler, then recalculateMetrics (which
\* only logs and swallows its own errors).  A handler's throw skips the rest.
ProcessWebhookEvent(d, upsertOk) ==
    LET h == Route(d.type)
        res == CASE h = "subscription" ->
                      HandleSubscriptionEvent(d.obj, upsertOk)
                 [] h = "invoice" -> HandleInvoiceEvent(d.obj)
                 [] h \in {"customer", "price"} -> HandleIdOnlyEvent(d.obj)
                 [] OTHER -> [error |-> "none", row |-> NoWrite]
    IN  [error |-> res.error,
         handler |-> h # "unhandled",
         row |-> res.row,
         recalc |-> res.error = "none" /\ NeedsRecalculation(d.type)]

Pow2(n) == IF n = 0 THEN 1 ELSE IF n = 1 THEN 2 ELSE IF n = 2 THEN 4 ELSE 8

\* setTimeout(resolve, 1000 * Math.pow(2, retryCount)), retryCount already incremented
BackoffDelay(retryCount) == 1000 * Pow2(retryCount)

\* if (Date.now() - startTime > MAX_PROCESSING_TIME)
TimedOut(t, startTime) == t - startTime > MAX_PROCESSING_TIME

\* ------------------------------------------------ the metrics table (SQL)
DAY == 24 * 60 * 60 * 1000
\* Date.now() - 5 * 60 * 1000
FIVE_MINUTES == 5 * 60 * 1000

\* DATE(recorded_at), the day of the unique index
DateOf(t) == t \div DAY

\* metric_name TEXT CHECK (metric_name IN (...))
AllowedMetricNames ==
    {"mrr", "churn_rate", "cac", "ltv", "conversion_rate", "net_revenue_retention"}

Row(ws, name, value, t) ==
    [workspace_id |-> ws, metric_name |-> name, value |-> value, recorded_at |-> t]

\* CREATE UNIQUE INDEX ... ON metrics (workspace_id, metric_name, DATE(recorded_at))
SameKey(a, b) ==
    /\ a.workspace_id = b.workspace_id
    /\ a.metric_name = b.metric_name
    /\ DateOf(a.recorded_at) = DateOf(b.recorded_at)

\* One INSERT statement with several rows: each row in turn passes the CHECK,
\* is stored and enters the unique index; the first row to fail ends the
\* statement with its SQLSTATE (23514 check_violation, 23505 unique_violation).
RECURSIVE InsertRows(_, _)
InsertRows(table, rows) ==
    IF rows = << >> THEN [code |-> "ok", table |-> table]
    ELSE LET r == Head(rows)
         IN  IF r.metric_name \notin AllowedMetricNames
             THEN [code |-> "23514", table |-> table]
             ELSE IF \E i \in DOMAIN table : SameKey(table[i], r)
             THEN [code |-> "23505", table |-> table]
             ELSE InsertRows(Append(table, r), Tail(rows))

\* A failed statement is rolled back whole.
InsertStatement(table, rows) ==
    LET res == InsertRows(table, rows)
    IN  IF res.code = "ok" THEN res ELSE [code |-> res.code, table |-> table]

\* ----------------------------------------------- recalculation (part_006)
Calls == 1..MaxCalls

\* Workspaces of authenticated users.
Workspaces == {"ws_1", "ws_2", "ws_3", "ws_4"}

\* The row of the connections table for (workspace, 'stripe'): ws_1 and ws_2
\* have one with an access token, ws_3 has none (.single() reports PGRST116),
\* ws_4 has one whose access_token is empty.
ConnectionOf_connected(ws) == "ok"
ConnectionOf(ws) ==
    CASE ws \in {"ws_1", "ws_2"} -> "ok"
      [] ws = "ws_3" -> "absent"
      [] OTHER -> "empty_token"

\* The error calculateMetricsFromStripe throws for the connection it found.
ConnectionError(conn) ==
    CASE conn = "absent" -> "STRIPE_NOT_CONNECTED"
      [] conn = "empty_token" -> "STRIPE_INVALID_TOKEN"
      [] OTHER -> "none"

\* A subscription line item: price.unit_amount (cents), quantity,
\* price.recurring.interval.
Item(amount, quantity, interval) ==
    [unit_amount |-> amount, quantity |-> quantity, interval |-> interval]

\* What Stripe returns: the active subscriptions (each a list of items) and
\* the number of customers with an active or trialing subscription.
ProviderStates ==
    { [subs |-> << >>, customers |-> 0],
      [subs |-> << <<Item(1000, 2, "month"), Item(500, 1, "year")>> >>,
       customers |-> 2] }

\* An amount of money: dollars + cents / 100, with 0 <= cents < 100 (so -0.50
\* is -1 dollars and 50 cents).  The code computes in floating-point dollars;
\* every amount it handles is a whole number of cents.
Money(d, c) == [dollars |-> d, cents |-> c]
Zero == Money(0, 0)
Plus(a, b) ==
    Money(a.dollars + b.dollars + (a.cents + b.cents) \div 100,
          (a.cents + b.cents) % 100)
Negative(a) == a.dollars < 0
\* a > whole dollars
Exceeds(a, dollars) == a.dollars > dollars \/ (a.dollars = dollars /\ a.cents > 0)

\* (unit_amount * quantity) / 100
Times(unit_amount, quantity) ==
    LET d == unit_amount \div 100
        c == unit_amount % 100
    IN  Money(d * quantity + (c * quantity) \div 100, (c * quantity) % 100)

\* if (item.price?.unit_amount && item.price?.recurring?.interval === 'month')
\*   mrr += (item.price.unit_amount * (item.quantity || 1)) / 100
ItemAmount(it) ==
    IF it.unit_amount # 0 /\ it.interval = "month"
    THEN Times(it.unit_amount, IF it.quantity = 0 THEN 1 ELSE it.quantity)
    ELSE Zero

RECURSIVE SumItems(_)
SumItems(items) ==
    IF items = << >> THEN Zero ELSE Plus(ItemAmount(Head(items)), SumItems(Tail(items)))

RECURSIVE SumSubscriptions(_)
SumSubscriptions(subs) ==
    IF subs = << >> THEN Zero
    ELSE Plus(SumItems(Head(subs)), SumSubscriptions(Tail(subs)))

Min2(a, b) == IF a <= b THEN a ELSE b

\* Math.round(a / b) for a >= 0, b > 0
RoundDiv(a, b) == (2 * a + b) \div (2 * b)

\* Math.min(mrr, 100000000), in dollars
MAX_MRR == 100000000
\* Math.min(ltv, 10000000), in dollars
MAX_LTV == 10000000
\* Math.min(activeCustomers, 1000000)
MAX_CUSTOMERS == 1000000

\* if (mrr < 0) mrr = 0
Floor0_kept(a) == a
Floor0(a) == IF Negative(a) THEN Zero ELSE a

\* mrr: the sum, a negative sum replaced by 0, then Math.min(mrr, 100000000)
MRR(subs) ==
    LET sum == Floor0(SumSubscriptions(subs))
    IN  IF Exceeds(sum, MAX_MRR) THEN Money(MAX_MRR, 0) ELSE sum

\* Math.max(0, Math.min(activeCustomers, 1000000))
ActiveCustomers(n) == Max2(0, Min2(n, MAX_CUSTOMERS))

\* churnRate as the exact fraction num / den:
\* min(0.05 * max(0.5, min(2, 1000 / max(n, 1))), 0.5) when n > 0, else 0
ChurnFraction_flat(n) == IF n <= 0 THEN [num |-> 0, den |-> 1] ELSE [num |-> 1, den |-> 20]
ChurnFraction(n) ==
    IF n <= 0 THEN [num |-> 0, den |-> 1]
    ELSE IF n <= 500 THEN [num |-> 1, den |-> 10]
    ELSE IF n >= 2000 THEN [num |-> 1, den |-> 40]
    ELSE [num |-> 50, den |-> n]

\* Math.round(churnRate * 10000), the stored churn_rate in units of 0.0001
ChurnRate(n) == LET f == ChurnFraction(n) IN RoundDiv(f.num * 10000, f.den)

\* mrr * den / num rounded to cents, for mrr >= 0 with mrr.dollars * den
\* no more than MAX_LTV * num
Quotient(mrr, f) ==
    LET whole == mrr.dollars * f.den
        rest == RoundDiv(100 * (whole % f.num) + mrr.cents * f.den, f.num)
    IN  Money(whole \div f.num + rest \div 100, rest % 100)

\* if (churnRate > 0 && churnRate < 1) ltv = max(0, min(mrr / churnRate, 10000000))
LTV_uncapped(mrr, n) ==
    LET f == ChurnFraction(n)
    IN  IF f.num > 0 /\ f.num < f.den /\ mrr.dollars <= (MAX_LTV * f.num) \div f.den
        THEN Quotient(mrr, f)
        ELSE Zero
LTV(mrr, n) ==
    LET f == ChurnFraction(n)
    IN  IF f.num > 0 /\ f.num < f.den
        THEN IF Negative(mrr) THEN Zero
             \* mrr * den / num > MAX_LTV already for the whole dollars of mrr
             ELSE IF mrr.dollars > (MAX_LTV * f.num) \div f.den THEN Money(MAX_LTV, 0)
             ELSE LET ltv == Quotient(mrr, f)
                  IN  IF Exceeds(ltv, MAX_LTV) THEN Money(MAX_LTV, 0) ELSE ltv
        ELSE Zero

\* const metrics = [...], every row with recorded_at = new Date()
CompileMetrics(ws, mrr, n, t) ==
    << Row(ws, "mrr", mrr, t),
       Row(ws, "churn_rate", ChurnRate(n), t),
       Row(ws, "ltv", LTV(mrr, n), t),
       Row(ws, "active_customers", n, t) >>

\* The rate-limit query: the rows of the workspace with recorded_at >= fiveMinutesAgo.
RecentRows(table, ws, t) ==
    {i \in DOMAIN table :
        /\ table[i].workspace_id = ws
        /\ table[i].recorded_at >= t - FIVE_MINUTES}

\* .order('recorded_at', { ascending: false }).limit(1): recentMetrics[0].recorded_at
LastCalculated(table, ws, t) ==
    CHOOSE x \in {table[i].recorded_at : i \in RecentRows(table, ws, t)} :
        \A i \in RecentRows(table, ws, t) : table[i].recorded_at <= x

\* What calculateMetricsFromStripe does with the outcome of the insert:
\* 23505 returns the metrics, any other error throws DATABASE_ERROR.
AfterInsert_conflictFatal(code) == IF code = "ok" THEN "return" ELSE "throw"
AfterInsert(code) == IF code \in {"ok", "23505"} THEN "return" ELSE "throw"

\* The statusCode each MetricsPulseError of calculateMetricsFromStripe is
\* constructed with.
StatusCodeOf(code) ==
    CASE code \in {"STRIPE_NOT_CONNECTED", "STRIPE_INVALID_TOKEN"} -> 400
      [] code = "STRIPE_API_ERROR" -> 502
      [] OTHER -> 500

\* The status the catch of POST gives a thrown error (code, message).
ErrorStatus(code, message) ==
    IF code = "EXTERNAL_SERVICE_ERROR" THEN 502
    ELSE IF message = "timeout" THEN 408
    ELSE IF message = "rate limit" THEN 429
    ELSE 500

\* The provider data when the calculation is not run on its own.
NoSample == [subs |-> << >>, customers |-> 0]

FreshCall ==
    [pc |-> "idle", ws |-> "none", arrivedAt |-> 0, mrr |-> Zero, rows |-> << >>,
     status |-> 0, body |-> "none", lastCalculated |-> 0, code |-> "none",
     \* what the request did, for the properties:
     rateLimit |-> "none", providerCalls |-> 0, failedFetch |-> "none",
     insertCode |-> "none",
     stored |-> << >>,
     changed |-> FALSE]

Answer(c, status, body) == [c EXCEPT !.pc = "done", !.status = status, !.body = body]

Throw(c, code, message) ==
    [c EXCEPT !.pc = "done", !.status = ErrorStatus(code, message),
              !.body = "error", !.code = code]

\* ------------------------------------------- retryRequest (API client)
\* What requestFn settles with: a response, a thrown Error with a message,
\* or a thrown value that is not an Error.
Response == [ok |-> TRUE, isError |-> FALSE, message |-> "response"]
ThrownError(message) == [ok |-> FALSE, isError |-> TRUE, message |-> message]
ThrownValue == [ok |-> FALSE, isError |-> FALSE, message |-> "none"]
NoOutcome == [ok |-> FALSE, isError |-> FALSE, message |-> "undefined"]

Messages ==
    {"HTTP 401", "HTTP 403", "HTTP 400", "HTTP 422", "HTTP 429",
     "HTTP 429: retry in 4000 ms", "Request timeout",
     "Network error - please check your connection"}

\* The status codes that occur in a message as substrings.
CodesIn(message) ==
    CASE message = "HTTP 401" -> {"401"}
      [] message = "HTTP 403" -> {"403"}
      [] message = "HTTP 400" -> {"400"}
      [] message = "HTTP 422" -> {"422"}
      [] message = "HTTP 429" -> {"429"}
      [] message = "HTTP 429: retry in 4000 ms" -> {"429", "400"}
      [] OTHER -> {}

\* error.message.includes(code)
MessageIncludes(message, code) == code \in CodesIn(message)

Outcomes == {Response, ThrownValue} \cup {ThrownError(m) : m \in Messages}

\* Math.random() * 1000, at its two ends.
Jitters == {0, 999}

IdleRetry(maxRetries) ==
    [pc |-> "idle", maxRetries |-> maxRetries, attempt |-> 0, started |-> 0,
     settled |-> << >>, delays |-> << >>, lastError |-> NoOutcome,
     result |-> NoOutcome, thrown |-> NoOutcome]

RethrowAtOnce_authOnly(e) ==
    /\ e.isError
    /\ (MessageIncludes(e.message, "401") \/ MessageIncludes(e.message, "403"))

\* The two "don't retry" tests of the catch block.
RethrowAtOnce(e) ==
    /\ e.isError
    /\ \/ MessageIncludes(e.message, "401") \/ MessageIncludes(e.message, "403")
       \/ MessageIncludes(e.message, "400") \/ MessageIncludes(e.message, "422")

\* error.message.includes('429'), reached when the tests above are false.
RateLimited(e) == e.isError /\ MessageIncludes(e.message, "429")

\* 2000 * (attempt + 1)
RateLimitDelay(attempt) == 2000 * (attempt + 1)

\* Math.min(1000 * Math.pow(2, attempt) + Math.random() * 1000, 30000)
RetryDelay(attempt, jitter) == Min2(1000 * Pow2(attempt) + jitter, 30000)

\* The top of the for loop: call requestFn, or leave the loop and throw lastError.
EnterLoop(a, attempt) ==
    IF attempt <= a.maxRetries
    THEN [a EXCEPT !.attempt = attempt, !.pc = "pending", !.started = @ + 1]
    ELSE [a EXCEPT !.attempt = attempt, !.pc = "thrown", !.thrown = a.lastError]

\* ------------------------------------------------------ useOfflineHandler
\* The hook after its first render: nothing pending, no loop running.
\* Queued actions are numbered in the order of queueAction.
Mounted(online) ==
    [isOnline |-> online, pendingActions |-> << >>, isProcessingPending |-> FALSE,
     running |-> FALSE, snapshot |-> << >>, position |-> 0,
     queued |-> 0, executed |-> << >>]

\* processPendingActions up to its first await: the early return, else
\* setIsProcessingPending(true) and the call of the first pending action.
ProcessPendingActions(h) ==
    IF h.isProcessingPending \/ Len(h.pendingActions) = 0
    THEN h
    ELSE [h EXCEPT !.isProcessingPending = TRUE, !.running = TRUE,
                   !.snapshot = h.pendingActions, !.position = 1,
                   !.executed = Append(@, h.pendingActions[1])]

\* The effect that follows a render in which isOnline, pendingActions or
\* isProcessingPending changed (each changes one of its dependencies).
AfterRender(h) ==
    IF h.isOnline /\ Len(h.pendingActions) > 0
    THEN ProcessPendingActions(h)
    ELSE h

\* The library functions, before anything has called them.
LibIdle ==
    /\ mapped = << >>
    /\ retry = IdleRetry(MAX_RETRIES)
    /\ handler = Mounted(TRUE)

\* ----------------------------------------------------------------- actions
Init ==
    /\ now = 1
    /\ passes = 0
    /\ processedEvents = << >>
    /\ subscriptions = << >>
    /\ checks = 0
    /\ req = [r \in Reqs |-> Fresh]
    /\ metrics = << >>
    /\ call = [c \in Calls |-> FreshCall]
    /\ sample = NoSample
    /\ runs = << >>
    /\ LibIdle

Passed == [status |-> 0, body |-> "pass"]
Rejected(status, body) == [status |-> status, body |-> body]

HeaderChecks_signatureFirst(d) ==
    IF d.sig = "missing" THEN Rejected(400, "no_signature")
    ELSE IF ~d.ua THEN Rejected(401, "unauthorized")
    ELSE IF ~d.ct THEN Rejected(400, "invalid_content_type")
    ELSE Passed

\* POST, lines 38-53: User-Agent, Content-Type, presence of the signature.
HeaderChecks(d) ==
    IF ~d.ua THEN Rejected(401, "unauthorized")
    ELSE IF ~d.ct THEN Rejected(400, "invalid_content_type")
    ELSE IF d.sig = "missing" THEN Rejected(400, "no_signature")
    ELSE Passed

\* POST, lines 20-53: the request arrives; the header checks.
Receive(r, d) ==
    /\ req[r].pc = "idle"
    /\ \A q \in Reqs : q < r => req[q].pc # "idle"
    /\ LET a == [req[r] EXCEPT !.dlv = d, !.startTime = now]
           c == HeaderChecks(d)
       IN  req' = [req EXCEPT ![r] =
                IF c # Passed THEN Respond(a, c.status, c.body)
                ELSE [a EXCEPT !.pc = "body"]]
    /\ UNCHANGED <<now, passes, processedEvents, subscriptions, checks, metVars, calcVars, libVars>>

\* POST, lines 56-126: the body is read; size check, signature verification,
\* idempotency check and recording, structure check, timeout check.
Verify(r) ==
    /\ req[r].pc = "body"
    /\ LET d == req[r].dlv
           a == req[r]
           seen == [a EXCEPT !.order = checks + 1, !.checkedAt = now]
           cache == Compact(Record(processedEvents, d.id, now), now)
       IN  IF ~d.readable
           THEN /\ req' = [req EXCEPT ![r] = Respond(a, 400, "invalid_body")]
                /\ UNCHANGED <<processedEvents, checks>>
           ELSE IF d.len > MaxBodyLength
           THEN /\ req' = [req EXCEPT ![r] = Respond(a, 413, "too_large")]
                /\ UNCHANGED <<processedEvents, checks>>
           ELSE IF ~SignatureVerifies(d)
           THEN /\ req' = [req EXCEPT ![r] = Respond(a, 400, "invalid_signature")]
                /\ UNCHANGED <<processedEvents, checks>>
           ELSE IF IsDuplicate(processedEvents, d.id, now)
           THEN /\ req' = [req EXCEPT ![r] = Respond(seen, 200, "duplicate")]
                /\ checks' = checks + 1
                /\ processedEvents' = AfterDuplicate(processedEvents, d.id, now)
           ELSE /\ processedEvents' = cache
                /\ checks' = checks + 1
                /\ LET b == [seen EXCEPT !.wrote = (cache # processedEvents)]
                   IN  req' = [req EXCEPT ![r] =
                            IF ~d.obj.present
                            THEN Respond(b, 400, "invalid_structure")
                            ELSE IF TimedOut(now, a.startTime)
                            THEN Respond(b, 408, "timeout")
                            ELSE [b EXCEPT !.pc = "client"]]
    /\ UNCHANGED <<now, passes, subscriptions, metVars, calcVars, libVars>>

\* POST, line 128: createServerComponentClient(); a throw reaches the outer catch.
CreateClient(r) ==
    /\ req[r].pc = "client"
    /\ \E ok \in BOOLEAN :
        req' = [req EXCEPT ![r] =
            IF ok THEN [@ EXCEPT !.pc = "attempt"]
            ELSE Respond(@, 500, "internal_error")]
    /\ UNCHANGED <<now, passes, processedEvents, subscriptions, checks, metVars, calcVars, libVars>>

\* POST, lines 132-169: one turn of the retry loop.
Attempt(r) ==
    /\ req[r].pc = "attempt"
    /\ req[r].retryCount < MAX_RETRY_ATTEMPTS
    /\ \E upsertOk \in BOOLEAN :
        LET a == req[r]
            res == ProcessWebhookEvent(a.dlv, upsertOk)
            count == a.retryCount + 1
            b == [a EXCEPT !.outcomes = Append(@, res.error),
                           !.startedAt = Append(@, now - a.startTime),
                           !.handlerRuns = @ + (IF res.handler THEN 1 ELSE 0),
                           !.recalcs = @ + (IF res.recalc THEN 1 ELSE 0),
                           !.rows = @ + (IF res.row.write THEN 1 ELSE 0)]
        IN  /\ subscriptions' =
                IF res.row.write
                THEN Append(subscriptions,
                            [stripe_subscription_id |-> res.row.sub,
                             user_id |-> res.row.user])
                ELSE subscriptions
            /\ req' = [req EXCEPT ![r] =
                IF res.error = "none"
                THEN Respond(b, 200, "success")
                ELSE IF count >= MAX_RETRY_ATTEMPTS
                THEN FailureResponse([b EXCEPT !.retryCount = count])
                ELSE [b EXCEPT !.retryCount = count, !.pc = "backoff",
                               !.wakeAt = now + BackoffDelay(count),
                               !.waits = Append(@, BackoffDelay(count))]]
    /\ UNCHANGED <<now, passes, processedEvents, checks, metVars, calcVars, libVars>>

\* POST, line 168: the backoff timer fires (no earlier than its delay).
Wake(r) ==
    /\ req[r].pc = "backoff"
    /\ now' = Max2(now, req[r].wakeAt)
    /\ req' = [req EXCEPT ![r].pc = "attempt"]
    /\ UNCHANGED <<passes, processedEvents, subscriptions, checks, metVars, calcVars, libVars>>

\* Time passes: up to the processing budget while requests wait for I/O, a
\* whole idempotency window only between requests.
Pass(g) ==
    /\ passes < MaxPasses
    /\ \E r \in Reqs : req[r].pc # "done"
    /\ g = WEBHOOK_IDEMPOTENCY_WINDOW => \A r \in Reqs : req[r].pc \in {"idle", "done"}
    /\ now' = now + g
    /\ passes' = passes + 1
    /\ UNCHANGED <<webVars, metVars, calcVars, libVars>>

Next ==
    \/ \E r \in Reqs, d \in Deliveries : Receive(r, d)
    \/ \E r \in Reqs : Verify(r)
    \/ \E r \in Reqs : CreateClient(r)
    \/ \E r \in Reqs : Attempt(r)
    \/ \E r \in Reqs : Wake(r)
    \/ \E g \in Gaps : Pass(g)

Spec == Init /\ [][Next]_vars

\* ------------------------------------------- a process with a full cache
\* The endpoint after it has recorded more than CompactionThreshold events:
\* 500 events a day ago, evt_1 after them, then 500 more and evt_2 within
\* the same 24 hours (so no compaction has removed anything yet).
FillerId(i) == "evt_old_" \o ToString(i)
OldFillers == {FillerId(i) : i \in 1..500}
RecentFillers == {FillerId(i) : i \in 501..CompactionThreshold}

CacheStart == 2 * WEBHOOK_IDEMPOTENCY_WINDOW

\* How long before CacheStart evt_1 was recorded.
Evt1Ages == {WEBHOOK_IDEMPOTENCY_WINDOW - MAX_PROCESSING_TIME, WEBHOOK_IDEMPOTENCY_WINDOW}

FullCache(age1) ==
    [id \in OldFillers \cup RecentFillers \cup EventIds |->
        IF id \in OldFillers THEN CacheStart - WEBHOOK_IDEMPOTENCY_WINDOW - 1000
        ELSE IF id = "evt_1" THEN CacheStart - age1
        ELSE CacheStart - 1000]

\* Deliveries whose processing cannot fail.
CacheDeliveries ==
    { Signed("evt_1", "customer.created", Obj("cus_A", "none")),
      Signed("evt_2", "invoice.payment_failed", Obj("in_1", "cus_A")) }

CacheInit ==
    /\ now = CacheStart
    /\ passes = 0
    /\ processedEvents \in {FullCache(a) : a \in Evt1Ages}
    /\ subscriptions = << >>
    /\ checks = 0
    /\ req = [r \in Reqs |-> Fresh]
    /\ metrics = << >>
    /\ call = [c \in Calls |-> FreshCall]
    /\ sample = NoSample
    /\ runs = << >>
    /\ LibIdle

CacheNext ==
    \/ \E r \in Reqs, d \in CacheDeliveries : Receive(r, d)
    \/ \E r \in Reqs : Verify(r)
    \/ \E r \in Reqs : CreateClient(r)
    \/ \E r \in Reqs : Attempt(r)
    \/ \E g \in Gaps : Pass(g)

CacheSpec == CacheInit /\ [][CacheNext]_vars

\* ------------------------------------------ actions of POST /api/metrics
\* The requests POST receives: content type, authentication, workspace.
Request(ct, auth, ws) == [ct |-> ct, auth |-> auth, ws |-> ws]

Requests ==
    {Request(TRUE, "ok", w) : w \in Workspaces}
    \cup { Request(FALSE, "ok", "ws_1"), Request(TRUE, "error", "ws_1"),
           Request(TRUE, "none", "ws_1"), Request(TRUE, "ok", "none") }

\* Clock jumps: exactly the rate-limit window, exactly one day.
MetricGaps == {FIVE_MINUTES, DAY}

\* The metrics table when the process starts: empty, or holding a row of
\* today written ten minutes ago (the first row of a recalculation would
\* collide with it) or just now (the third row would).  (The database is shared; see
\* AllowedMetricNames for why such rows are not written by this endpoint.)
StartTime == DAY + 2 * FIVE_MINUTES

SeedTables ==
    { << >>,
      << Row("ws_1", "mrr", Money(9, 99), DAY) >>,
      << Row("ws_1", "ltv", Money(50, 0), StartTime) >> }

MInit ==
    /\ now = StartTime
    /\ passes = 0
    /\ processedEvents = << >>
    /\ subscriptions = << >>
    /\ checks = 0
    /\ req = [r \in Reqs |-> Fresh]
    /\ metrics \in SeedTables
    /\ call = [c \in Calls |-> FreshCall]
    /\ sample = NoSample
    /\ runs = << >>
    /\ LibIdle

\* POST, lines 207-272: content type, user, workspace.
MReceive(c, in) ==
    /\ call[c].pc = "idle"
    /\ \A k \in Calls : k < c => call[k].pc # "idle"
    /\ LET a == [call[c] EXCEPT !.arrivedAt = now]
       IN  call' = [call EXCEPT ![c] =
                IF ~in.ct THEN Answer(a, 400, "invalid_content_type")
                ELSE IF in.auth = "error" THEN Answer(a, 401, "authentication_failed")
                ELSE IF in.auth = "none" THEN Answer(a, 401, "unauthorized")
                ELSE IF in.ws = "none" THEN Answer(a, 404, "workspace_not_found")
                ELSE [a EXCEPT !.ws = in.ws, !.pc = "ratecheck"]]
    /\ UNCHANGED <<now, passes, webVars, metrics, calcVars, libVars>>

\* POST, lines 274-295: the rate-limit query; a failed query is only logged.
RateCheck(c) ==
    /\ call[c].pc = "ratecheck"
    /\ \E queryOk \in BOOLEAN :
        LET a == call[c]
        IN  call' = [call EXCEPT ![c] =
                IF ~queryOk
                THEN [a EXCEPT !.pc = "calculate", !.rateLimit = "failed"]
                ELSE IF RecentRows(metrics, a.ws, now) # {}
                THEN [Answer(a, 200, "calculated_recently")
                        EXCEPT !.lastCalculated = LastCalculated(metrics, a.ws, now),
                               !.rateLimit = "limited"]
                ELSE [a EXCEPT !.pc = "calculate", !.rateLimit = "passed"]]
    /\ UNCHANGED <<now, passes, webVars, metrics, calcVars, libVars>>

\* calculateMetricsFromStripe, lines 353-580: the connection lookup (a failed
\* query, a missing row and an empty token throw), subscriptions.list (a
\* failure throws), the MRR, customers.list (a failure leaves 0 customers),
\* churn rate, LTV, and the four rows with recorded_at = now.  Nothing here
\* reads state that requests share, so the awaits in between are not
\* separate steps.
Calculate(c) ==
    /\ call[c].pc = "calculate"
    /\ LET a == call[c]
           conn == ConnectionOf(a.ws)
           called == [a EXCEPT !.providerCalls = 1, !.failedFetch = "subscriptions"]
       IN  \/ call' = [call EXCEPT ![c] = Throw(a, "DATABASE_ERROR", "access")]
           \/ /\ conn # "ok"
              /\ call' = [call EXCEPT ![c] = Throw(a, ConnectionError(conn), "connection")]
           \/ /\ conn = "ok"
              /\ call' = [call EXCEPT ![c] = Throw(called, "STRIPE_API_ERROR", "fetch")]
           \/ /\ conn = "ok"
              /\ \E p \in ProviderStates, customersOk \in BOOLEAN :
                    LET mrr == MRR(p.subs)
                        n == IF customersOk THEN ActiveCustomers(p.customers) ELSE 0
                    IN  call' = [call EXCEPT ![c] =
                            [a EXCEPT !.mrr = mrr,
                                      !.rows = CompileMetrics(a.ws, mrr, n, now),
                                      !.providerCalls = 2,
                                      !.failedFetch =
                                          IF customersOk THEN "none" ELSE "customers",
                                      !.pc = "insert"]]
    /\ UNCHANGED <<now, passes, webVars, metrics, calcVars, libVars>>

\* The stored rows that share the unique key of one of the rows to insert.
StoredFor(table, rows) ==
    SelectSeq(table, LAMBDA t : \E i \in DOMAIN rows : SameKey(t, rows[i]))

\* calculateMetricsFromStripe, lines 582-609, and the response of POST.
InsertMetrics(c) ==
    /\ call[c].pc = "insert"
    /\ \E reachable \in BOOLEAN :
        LET a == call[c]
            res == IF reachable THEN InsertStatement(metrics, a.rows)
                   ELSE [code |-> "08006", table |-> metrics]
            b == [a EXCEPT !.insertCode = res.code,
                           !.stored = StoredFor(metrics, a.rows),
                           !.changed = (res.table # metrics)]
        IN  /\ metrics' = res.table
            /\ call' = [call EXCEPT ![c] =
                    IF AfterInsert(res.code) = "return"
                    THEN Answer(b, 200, "calculated")
                    ELSE Throw(b, "DATABASE_ERROR", "save")]
    /\ UNCHANGED <<now, passes, webVars, calcVars, libVars>>

\* Time passes while requests wait for I/O, or between requests.
MPass(g) ==
    /\ passes < MaxJumps
    /\ \E c \in Calls : call[c].pc # "done"
    /\ now' = now + g
    /\ passes' = passes + 1
    /\ UNCHANGED <<webVars, metVars, calcVars, libVars>>

MNext ==
    \/ \E c \in Calls, in \in Requests : MReceive(c, in)
    \/ \E c \in Calls : RateCheck(c)
    \/ \E c \in Calls : Calculate(c)
    \/ \E c \in Calls : InsertMetrics(c)
    \/ \E g \in MetricGaps : MPass(g)

MetricsSpec == MInit /\ [][MNext]_vars

\* ------------------------------------------------ the calculation alone
\* Line items a subscription may carry: monthly and yearly prices, a quantity
\* of 0, a free price, a negative amount (corrupted data), a very large one.
Items ==
    { Item(1000, 2, "month"), Item(500, 1, "year"), Item(1050, 3, "month"),
      Item(1000, 0, "month"), Item(10000, 1, "month"), Item(-5000, 1, "month"),
      Item(200000000, 1, "month"), Item(1000000000, 11, "month") }

\* subscription.items.data: one or two line items
ItemLists == {<<i>> : i \in Items} \cup {<<i, j>> : i \in Items, j \in Items}

\* subscriptionsResponse.data: up to two active subscriptions
SubscriptionLists ==
    {<< >>} \cup {<<a>> : a \in ItemLists} \cup {<<a, b>> : a \in ItemLists, b \in ItemLists}

\* The number of customers with an active or trialing subscription.
CustomerCounts == {0, 1, 500, 501, 1000, 1999, 2000}

Samples == [subs : SubscriptionLists, customers : CustomerCounts]

CalcInit ==
    /\ now = StartTime
    /\ passes = 0
    /\ processedEvents = << >>
    /\ subscriptions = << >>
    /\ checks = 0
    /\ req = [r \in Reqs |-> Fresh]
    /\ metrics = << >>
    /\ call = [c \in Calls |-> FreshCall]
    /\ sample \in Samples
    /\ runs = << >>
    /\ LibIdle

\* calculateMetricsFromStripe, lines 440-567, over the provider answer.
Compute ==
    /\ Len(runs) < MaxRuns
    /\ LET mrr == MRR(sample.subs)
           n == ActiveCustomers(sample.customers)
       IN  runs' = Append(runs, CompileMetrics("ws_1", mrr, n, now))
    /\ UNCHANGED <<now, passes, webVars, metVars, sample, libVars>>

\* Time passes between two runs.
CalcPass ==
    /\ passes < MaxJumps
    /\ Len(runs) < MaxRuns
    /\ now' = now + FIVE_MINUTES
    /\ passes' = passes + 1
    /\ UNCHANGED <<webVars, metVars, calcVars, libVars>>

CalcNext == Compute \/ CalcPass

CalcSpec == CalcInit /\ [][CalcNext]_vars

\* ------------------------------------------------- mapStripeStatus alone
\* The statusMap object literal: its own properties.
statusMap ==
    [active |-> "active", canceled |-> "cancelled", incomplete |-> "incomplete",
     incomplete_expired |-> "incomplete_expired", past_due |-> "past_due",
     trialing |-> "trialing", unpaid |-> "unpaid"]

\* Property names an object literal inherits from Object.prototype.
ObjectPrototypeKeys ==
    {"constructor", "toString", "valueOf", "hasOwnProperty", "__proto__"}

\* JavaScript values: a string, an inherited function or object, undefined.
Str(s) == [kind |-> "string", value |-> s]
Inherited(key) ==
    [kind |-> IF key = "__proto__" THEN "object" ELSE "function", value |-> key]
Undefined == [kind |-> "undefined", value |-> "undefined"]

\* statusMap[stripeStatus]: an own property, else one found on the prototype.
Get(key) ==
    IF key \in DOMAIN statusMap THEN Str(statusMap[key])
    ELSE IF key \in ObjectPrototypeKeys THEN Inherited(key)
    ELSE Undefined

\* The left operand of || is kept unless it is falsy.
Truthy(v) == v.kind # "undefined" /\ v # Str("")

\* return statusMap[stripeStatus] || 'unknown'
mapStripeStatus(stripeStatus) ==
    LET v == Get(stripeStatus)
    IN  IF Truthy(v) THEN v ELSE Str("unknown")

\* subscription.status: the statuses Stripe documents, other spellings, and
\* strings that name a property of every object.
ProviderStatuses ==
    DOMAIN statusMap
    \cup {"paused", "", "ACTIVE", "cancelled", "unknown"}
    \cup ObjectPrototypeKeys

MapStatus(stripeStatus) ==
    /\ Len(mapped) < MaxMapped
    /\ mapped' = Append(mapped, [status |-> stripeStatus,
                                 result |-> mapStripeStatus(stripeStatus)])
    /\ UNCHANGED <<now, passes, webVars, metVars, calcVars, retry, handler>>

StatusInit == Init

StatusNext == \E stripeStatus \in ProviderStatuses : MapStatus(stripeStatus)

StatusSpec == StatusInit /\ [][StatusNext]_vars

\* ------------------------------------------------------ retryRequest alone
\* retryRequest is called: the loop starts with attempt 0.
StartRetry ==
    /\ retry.pc = "idle"
    /\ retry' = EnterLoop(retry, 0)
    /\ UNCHANGED <<now, passes, webVars, metVars, calcVars, mapped, handler>>

\* requestFn settles: the return, or the catch block up to its next await.
Settle(o, jitter) ==
    /\ retry.pc = "pending"
    /\ LET a == [retry EXCEPT !.settled = Append(@, o)]
           e == [a EXCEPT !.lastError = o]
       IN  retry' =
            IF o.ok THEN [a EXCEPT !.pc = "returned", !.result = o]
            ELSE IF RethrowAtOnce(o)
            THEN [e EXCEPT !.pc = "thrown", !.thrown = o]
            ELSE IF RateLimited(o)
            THEN [e EXCEPT !.pc = "waiting",
                           !.delays = Append(@, RateLimitDelay(a.attempt))]
            ELSE IF a.attempt = a.maxRetries
            THEN [e EXCEPT !.pc = "thrown", !.thrown = o]
            ELSE [e EXCEPT !.pc = "waiting",
                           !.delays = Append(@, RetryDelay(a.attempt, jitter))]
    /\ UNCHANGED <<now, passes, webVars, metVars, calcVars, mapped, handler>>

\* The timer of the wait fires: attempt++ and the loop test.
TimerFires ==
    /\ retry.pc = "waiting"
    /\ retry' = EnterLoop(retry, retry.attempt + 1)
    /\ UNCHANGED <<now, passes, webVars, metVars, calcVars, mapped, handler>>

RetryInit ==
    /\ now = 1
    /\ passes = 0
    /\ processedEvents = << >>
    /\ subscriptions = << >>
    /\ checks = 0
    /\ req = [r \in Reqs |-> Fresh]
    /\ metrics = << >>
    /\ call = [c \in Calls |-> FreshCall]
    /\ sample = NoSample
    /\ runs = << >>
    /\ mapped = << >>
    /\ retry \in {IdleRetry(m) : m \in 0..MaxRetriesTried}
    /\ handler = Mounted(TRUE)

RetryNext ==
    \/ StartRetry
    \/ \E o \in Outcomes, jitter \in Jitters : Settle(o, jitter)
    \/ TimerFires

\* requestFn settles (enhancedFetch aborts at its timeout) and timers fire.
RetrySpec == RetryInit /\ [][RetryNext]_vars /\ WF_vars(RetryNext)

\* ------------------------------------------------- useOfflineHandler alone
\* queueAction(action): setPendingActions(prev => [...prev, action]).
QueueAction ==
    /\ handler.queued < MaxQueued
    /\ Len(handler.executed) < MaxExecutions
    /\ LET id == handler.queued + 1
       IN  handler' = AfterRender([handler EXCEPT !.queued = id,
                                        !.pendingActions = Append(@, id)])
    /\ UNCHANGED <<now, passes, webVars, metVars, calcVars, mapped, retry>>

\* The browser's online event.
GoOnline ==
    /\ ~handler.isOnline
    /\ Len(handler.executed) < MaxExecutions
    /\ handler' = AfterRender([handler EXCEPT !.isOnline = TRUE])
    /\ UNCHANGED <<now, passes, webVars, metVars, calcVars, mapped, retry>>

\* The browser's offline event.
GoOffline ==
    /\ handler.isOnline
    /\ handler' = AfterRender([handler EXCEPT !.isOnline = FALSE])
    /\ UNCHANGED <<now, passes, webVars, metVars, calcVars, mapped, retry>>

\* The awaited action resolves: the loop calls the next action of its
\* snapshot, or ends with setPendingActions([]) and the finally block.
ActionResolves ==
    /\ handler.running
    /\ Len(handler.executed) < MaxExecutions
    /\ LET h == handler
       IN  handler' =
            IF h.position < Len(h.snapshot)
            THEN [h EXCEPT !.position = @ + 1,
                           !.executed = Append(@, h.snapshot[h.position + 1])]
            ELSE AfterRender([h EXCEPT !.pendingActions = << >>,
                                      !.isProcessingPending = FALSE,
                                      !.running = FALSE])
    /\ UNCHANGED <<now, passes, webVars, metVars, calcVars, mapped, retry>>

\* The awaited action rejects: the catch logs, the finally block runs.
ActionThrows ==
    /\ handler.running
    /\ Len(handler.executed) < MaxExecutions
    /\ handler' = AfterRender([handler EXCEPT !.isProcessingPending = FALSE,
                                             !.running = FALSE])
    /\ UNCHANGED <<now, passes, webVars, metVars, calcVars, mapped, retry>>

HandlerInit ==
    /\ now = 1
    /\ passes = 0
    /\ processedEvents = << >>
    /\ subscriptions = << >>
    /\ checks = 0
    /\ req = [r \in Reqs |-> Fresh]
    /\ metrics = << >>
    /\ call = [c \in Calls |-> FreshCall]
    /\ sample = NoSample
    /\ runs = << >>
    /\ mapped = << >>
    /\ retry = IdleRetry(MAX_RETRIES)
    /\ handler \in {Mounted(online) : online \in BOOLEAN}

HandlerNext ==
    \/ QueueAction
    \/ GoOnline
    \/ GoOffline
    \/ ActionResolves
    \/ ActionThrows

HandlerSpec == HandlerInit /\ [][HandlerNext]_vars

\* ------------------------------------------------------------------ claims
Done(r) == req[r].pc = "done"
Failed(o) == o # "none"

\* q was recorded in the idempotency cache, and r, carrying the same event
\* id, reached the idempotency check later and less than 24 hours after it.
RepeatsInWindow(r, q) ==
    /\ q # r
    /\ req[q].order > 0
    /\ req[q].body # "duplicate"
    /\ req[q].order < req[r].order
    /\ req[q].dlv.id = req[r].dlv.id
    /\ req[r].checkedAt - req[q].checkedAt < WEBHOOK_IDEMPOTENCY_WINDOW

NoSideEffect(r) ==
    /\ req[r].outcomes = << >>
    /\ req[r].handlerRuns = 0
    /\ req[r].rows = 0
    /\ req[r].recalcs = 0
    /\ ~req[r].wrote

\* C1: a delivery that reaches the idempotency check less than 24 hours after
\* a recorded delivery of the same event id is answered 200 'duplicate' and
\* runs no handler, writes no row and triggers no recalculation.
C1_DuplicateHasNoSideEffect ==
    \A r \in Reqs, q \in Reqs :
        RepeatsInWindow(r, q) =>
            /\ Done(r)
            /\ req[r].status = 200
            /\ req[r].body = "duplicate"
            /\ NoSideEffect(r)

C1_Witness ==
    \E r \in Reqs, q \in Reqs :
        /\ RepeatsInWindow(r, q)
        /\ req[r].checkedAt > req[q].checkedAt
        /\ req[q].rows = 1
        /\ req[r].body = "duplicate"

\* C2: a delivery whose processing attempts all failed is answered 200 with
\* received: true and status 'processing_failed'; no delivery that reached
\* processing is answered with a non-2xx status.
C2_FailureIsAcknowledged ==
    \A r \in Reqs :
        (Done(r) /\ req[r].outcomes # << >>) =>
            /\ req[r].status = 200
            /\ Received(req[r].body)
            /\ (\A i \in DOMAIN req[r].outcomes : Failed(req[r].outcomes[i]))
                    => req[r].body = "processing_failed"

C2_Witness ==
    \E r \in Reqs :
        /\ Done(r)
        /\ Len(req[r].outcomes) = MAX_RETRY_ATTEMPTS
        /\ \A i \in DOMAIN req[r].outcomes : req[r].outcomes[i] = "database"
        /\ req[r].body = "processing_failed"

Unsigned(r) == req[r].pc # "idle" /\ req[r].dlv.sig \in {"missing", "invalid"}

\* C3 as stated: a delivery with a missing or non-verifying signature is
\* answered 400 and has no side effect.
C3_UnsignedAnswered400 ==
    \A r \in Reqs :
        (Done(r) /\ Unsigned(r)) =>
            /\ req[r].status = 400
            /\ req[r].order = 0
            /\ NoSideEffect(r)

\* The status the request checks give a delivery that fails one of them.
RejectionStatus(d) ==
    IF ~d.ua THEN 401
    ELSE IF ~d.ct \/ d.sig = "missing" \/ ~d.readable THEN 400
    ELSE IF d.len > MaxBodyLength THEN 413
    ELSE 400

\* C3 amended: a delivery with a missing or non-verifying signature is
\* rejected without side effect and without touching the idempotency cache;
\* it is answered 400 unless an earlier check answers first (401 for the
\* User-Agent, 413 for a signed body over 1 MB).
C3_UnsignedRejected ==
    /\ [](\A r \in Reqs :
            Unsigned(r) =>
                /\ req[r].order = 0
                /\ NoSideEffect(r)
                /\ Done(r) => req[r].status = RejectionStatus(req[r].dlv))
    /\ [][\A r \in Reqs :
            (Unsigned(r) /\ req'[r] # req[r]) =>
                processedEvents' = processedEvents]_vars

C3_Witness ==
    \E r \in Reqs, q \in Reqs :
        /\ Done(r) /\ req[r].dlv.sig = "invalid" /\ req[r].status = 400
        /\ Done(q) /\ req[q].dlv.sig = "missing" /\ req[q].status = 400
        /\ processedEvents = << >>

\* C4: processing is attempted at most 3 times per delivery, and a delivery
\* whose attempts 1 and 2 fail and whose attempt 3 succeeds is answered as a
\* success.
C4_ThirdAttemptSucceeds ==
    \A r \in Reqs :
        /\ Len(req[r].outcomes) <= 3
        /\ (/\ Len(req[r].outcomes) = 3
            /\ Failed(req[r].outcomes[1])
            /\ Failed(req[r].outcomes[2])
            /\ ~Failed(req[r].outcomes[3]))
           => /\ Done(r)
              /\ req[r].status = 200
              /\ req[r].body = "success"

C4_Witness ==
    \E r \in Reqs :
        /\ Done(r)
        /\ req[r].outcomes = <<"database", "database", "none">>
        /\ req[r].body = "success"
        /\ req[r].rows = 1

\* C5: a delivery whose processing fails with a validation error is attempted
\* exactly once and never waits for a backoff.
C5_ValidationNotRetried ==
    \A r \in Reqs :
        (\E i \in DOMAIN req[r].outcomes : req[r].outcomes[i] = "validation") =>
            /\ Len(req[r].outcomes) = 1
            /\ req[r].waits = << >>

\* C6: once more than 30 seconds have elapsed since the start of the request,
\* no further processing attempt is started: every retry starts within the
\* budget.
C6_BudgetStopsRetries ==
    \A r \in Reqs :
        \A i \in DOMAIN req[r].startedAt :
            i > 1 => req[r].startedAt[i] <= MAX_PROCESSING_TIME

\* C7: a verified event of an unmapped type that reaches processing is
\* acknowledged as a success, with no handler run, no recalculation
\* triggered and no error raised.
C7_UnmappedOnlyAcknowledged ==
    \A r \in Reqs :
        (req[r].outcomes # << >> /\ req[r].dlv.type \notin MappedTypes) =>
            /\ req[r].body = "success"
            /\ req[r].outcomes = <<"none">>
            /\ req[r].handlerRuns = 0
            /\ req[r].recalcs = 0

MDone(c) == call[c].pc = "done"

\* The insert of call c was refused with the uniqueness violation.
Conflicted(c) == call[c].insertCode = "23505"

\* C8: the metrics table never holds two rows for one (workspace_id,
\* metric_name, calendar day); a stored row is never changed or removed by a
\* later writer; and a recalculation whose insert collides with a stored row
\* leaves the table as it was and is answered as a success, not an error.
C8_OneSnapshotPerDay ==
    /\ [](\A i \in DOMAIN metrics, j \in DOMAIN metrics :
            i # j => ~SameKey(metrics[i], metrics[j]))
    /\ [](\A c \in Calls :
            Conflicted(c) =>
                /\ MDone(c)
                /\ call[c].status = 200
                /\ call[c].body = "calculated"
                /\ ~call[c].changed)
    /\ [][\A i \in DOMAIN metrics :
            i \in DOMAIN metrics' /\ metrics'[i] = metrics[i]]_vars

C8_Witness ==
    \E c \in Calls, k \in Calls :
        /\ c # k
        /\ Conflicted(c) /\ Conflicted(k)
        /\ call[c].ws = call[k].ws
        /\ DateOf(call[c].rows[1].recorded_at) = DateOf(call[k].rows[1].recorded_at)
        /\ call[c].status = 200 /\ call[k].status = 200
        /\ Len(metrics) = 1

\* C9: a recalculation whose insert hits the uniqueness violation is answered
\* as a success, leaves the stored rows unchanged, and every value it returns
\* for a key that is stored is the stored value.
C9_ConflictReturnsStored ==
    \A c \in Calls :
        Conflicted(c) =>
            /\ call[c].status = 200
            /\ ~call[c].changed
            /\ \A i \in DOMAIN call[c].rows, j \in DOMAIN call[c].stored :
                    SameKey(call[c].rows[i], call[c].stored[j])
                        => call[c].rows[i].value = call[c].stored[j].value

\* C10: of two requests for the same workspace that arrive less than five
\* minutes apart and whose rate-limit query succeeds, at most one goes on to
\* recalculate.
C10_OneRecalculationPerWindow ==
    \A c \in Calls, k \in Calls :
        (/\ c < k
         /\ call[c].ws # "none"
         /\ call[c].ws = call[k].ws
         /\ call[k].arrivedAt - call[c].arrivedAt < FIVE_MINUTES)
        => ~(call[c].rateLimit = "passed" /\ call[k].rateLimit = "passed")

\* Request r performs its idempotency check in this step.
ChecksNow(r) == req[r].order = 0 /\ req'[r].order > 0

\* C11: at the idempotency check an event id counts as a duplicate exactly
\* when the cache holds it with less than 24 hours elapsed since it was
\* recorded; otherwise the delivery is not answered 'duplicate' and the id is
\* recorded anew.  No step removes a cache entry unless more than 24 hours
\* have elapsed since it was recorded, and an entry younger than 24 hours
\* keeps its timestamp.
C11_WindowAndCompaction ==
    [][/\ \A r \in Reqs :
            ChecksNow(r) =>
                LET id == req[r].dlv.id
                    inWindow ==
                        /\ id \in DOMAIN processedEvents
                        /\ now - processedEvents[id] < WEBHOOK_IDEMPOTENCY_WINDOW
                IN  IF inWindow
                    THEN /\ req'[r].body = "duplicate"
                         /\ processedEvents' = processedEvents
                    ELSE /\ req'[r].body # "duplicate"
                         /\ id \in DOMAIN processedEvents'
                         /\ processedEvents'[id] = now
       /\ \A id \in DOMAIN processedEvents :
            /\ id \notin DOMAIN processedEvents'
                    => now - processedEvents[id] > WEBHOOK_IDEMPOTENCY_WINDOW
            /\ now - processedEvents[id] < WEBHOOK_IDEMPOTENCY_WINDOW
                    => /\ id \in DOMAIN processedEvents'
                       /\ processedEvents'[id] = processedEvents[id]
      ]_vars

\* evt_1 is redelivered 24 hours or more after it was recorded and is
\* processed again; recording it runs the compaction, which drops the old
\* entries; evt_2, recorded less than 24 hours before, is then a duplicate.
C11_Witness ==
    \E r \in Reqs, q \in Reqs :
        /\ req[q].dlv.id = "evt_1" /\ req[q].order = 1
        /\ req[q].body = "success"
        /\ OldFillers \cap DOMAIN processedEvents = {}
        /\ RecentFillers \subseteq DOMAIN processedEvents
        /\ req[r].dlv.id = "evt_2" /\ req[r].order = 2
        /\ req[r].body = "duplicate"

\* Call c got past the rate limit and its recalculation has run.
Recalculated(c) ==
    call[c].rateLimit \in {"passed", "failed"} /\ call[c].pc # "calculate"

\* The workspaces without a usable connection: none at all, empty token.
Unconnected == {"ws_3", "ws_4"}

\* The codes of the not-connected failure: no connection row, empty token.
NotConnectedCodes == {"STRIPE_NOT_CONNECTED", "STRIPE_INVALID_TOKEN"}

\* C12: a recalculation for a workspace that has no connection, or whose
\* connection has an empty access token, ends in an error without calling
\* the provider and without attempting the insert; the error is the
\* not-connected failure (unless the connection query itself failed).
C12_NotConnectedFails ==
    \A c \in Calls :
        (Recalculated(c) /\ call[c].ws \in Unconnected) =>
            /\ MDone(c)
            /\ call[c].body = "error"
            /\ call[c].code \in NotConnectedCodes \cup {"DATABASE_ERROR"}
            /\ call[c].code = "DATABASE_ERROR" \/ call[c].code = ConnectionError(ConnectionOf(call[c].ws))
            /\ call[c].providerCalls = 0
            /\ call[c].insertCode = "none"
            /\ call[c].rows = << >>

C12_Witness ==
    \E c \in Calls, k \in Calls :
        /\ call[c].ws = "ws_3" /\ MDone(c) /\ call[c].code = "STRIPE_NOT_CONNECTED"
        /\ call[k].ws = "ws_4" /\ MDone(k) /\ call[k].code = "STRIPE_INVALID_TOKEN"
        /\ call[c].providerCalls = 0 /\ call[k].providerCalls = 0

\* C13: a recalculation request that fails is answered with the status of
\* the error that was thrown: 4xx for the not-connected failure, 502 for a
\* failure of the provider.
C13_ErrorStatusIsSpecific ==
    \A c \in Calls :
        (MDone(c) /\ call[c].body = "error") =>
            call[c].status = StatusCodeOf(call[c].code)

\* C14: when a subscription or invoice event of a customer whose workspace
\* has a connection is acknowledged as processed, the metrics table holds a
\* snapshot of that workspace recorded on the day of the delivery or later.
C14_SnapshotBeforeAcknowledgment ==
    \A r \in Reqs :
        (/\ Done(r)
         /\ req[r].body = "success"
         /\ NeedsRecalculation(req[r].dlv.type)
         /\ WorkspaceOf(req[r].dlv.obj.customer) # "none")
        => \E i \in DOMAIN metrics :
                /\ metrics[i].workspace_id = WorkspaceOf(req[r].dlv.obj.customer)
                /\ DateOf(metrics[i].recorded_at) >= DateOf(req[r].startTime)

\* C15: the wait after the first failed attempt is 1 second and the wait
\* after the second is 2 seconds, and no wait follows the third attempt.
C15_BackoffOneThenTwoSeconds ==
    \A r \in Reqs :
        /\ Len(req[r].waits) < MAX_RETRY_ATTEMPTS
        /\ Len(req[r].waits) >= 1 => req[r].waits[1] = 1000
        /\ Len(req[r].waits) >= 2 => req[r].waits[2] = 2000

\* unit_price * quantity / 100 for a line item billed monthly, else nothing.
MonthlyAmount(it) ==
    IF it.interval = "month" THEN Times(it.unit_amount, it.quantity) ELSE Zero

RECURSIVE MonthlyOfItems(_)
MonthlyOfItems(items) ==
    IF items = << >> THEN Zero
    ELSE Plus(MonthlyAmount(Head(items)), MonthlyOfItems(Tail(items)))

RECURSIVE MonthlyTotal(_)
MonthlyTotal(subs) ==
    IF subs = << >> THEN Zero
    ELSE Plus(MonthlyOfItems(Head(subs)), MonthlyTotal(Tail(subs)))

InMrrRange(a) == ~Negative(a) /\ ~Exceeds(a, MAX_MRR)

\* C16: the mrr of every run equals the sum, over the line items billed
\* monthly of every subscription, of unit_price * quantity / 100 (whenever
\* that sum lies within the bounds of the clamp).
C16_MrrIsSumOfMonthlyItems ==
    \A i \in DOMAIN runs :
        InMrrRange(MonthlyTotal(sample.subs))
            => runs[i][1].value = MonthlyTotal(sample.subs)

InCents(a) == 100 * a.dollars + a.cents
Distance(a, b) == IF a >= b THEN a - b ELSE b - a

\* C18: with churn rate num / den, the ltv of every run is 0 when the churn
\* rate is 0; otherwise it lies in [0, 1e7], is 1e7 when mrr / churn rate is
\* above 1e7, and is mrr / churn rate rounded to the cent when the mrr is at
\* most 1000.00 (where the bound cannot apply).
C18_LtvIsMrrOverChurn ==
    \A i \in DOMAIN runs :
        LET mrr == runs[i][1].value
            ltv == runs[i][3].value
            f == ChurnFraction(runs[i][4].value)
        IN  /\ runs[i][3].metric_name = "ltv"
            /\ ~Negative(ltv) /\ ~Exceeds(ltv, MAX_LTV)
            /\ f.num = 0 => ltv = Zero
            /\ (f.num > 0 /\ mrr.dollars \div f.num >= MAX_LTV \div f.den + 1)
                    => ltv = Money(MAX_LTV, 0)
            /\ (f.num > 0 /\ mrr.dollars <= 1000)
                    => 2 * Distance(InCents(ltv) * f.num, InCents(mrr) * f.den) <= f.num

\* An MRR of 100.00 with a churn rate of 0.05 gives an LTV of 2000.00.
C18_Witness ==
    /\ Len(runs) = MaxRuns
    /\ runs[1][1].value = Money(100, 0)
    /\ runs[1][2].value = 500
    /\ runs[1][3].value = Money(2000, 0)

\* 0.05 * factor in units of 0.0001, the factor being 1000 / n kept within
\* [0.5, 2].
ScaledBaseline(n) ==
    IF n < 500 THEN 1000
    ELSE IF n > 2000 THEN 250
    ELSE RoundDiv(500000, n)

C20_PartialSuccessPersists ==
    \A c \in Calls :
        (MDone(c) /\ call[c].failedFetch # "none") =>
            /\ call[c].rows # << >>
            /\ call[c].insertCode # "none"

\* C21: when the insert of a recalculation reaches the database and no row
\* of the workspace exists for the day, all four rows (mrr, churn_rate, ltv,
\* active_customers) are accepted and stored.
C21_FourRowsAccepted ==
    \A c \in Calls :
        (/\ MDone(c)
         /\ call[c].insertCode \notin {"none", "08006"}
         /\ call[c].stored = << >>)
        => /\ call[c].insertCode = "ok"
           /\ call[c].status = 200
           /\ \A i \in DOMAIN call[c].rows :
                \E j \in DOMAIN metrics : metrics[j] = call[c].rows[i]

\* The deliveries of event id that passed the idempotency check.
Recorders(id) ==
    {r \in Reqs : req[r].order > 0 /\ req[r].dlv.id = id /\ req[r].body # "duplicate"}

\* The deliveries of event id that reached the idempotency check.
Seen(id) == {r \in Reqs : req[r].order > 0 /\ req[r].dlv.id = id}

\* C22 as stated: the cache holds, for every event id, the time of the most
\* recent delivery of that id, duplicates included.
C22_TimestampIsLastSeen ==
    \A id \in EventIds : \A r \in Seen(id) :
        /\ id \in DOMAIN processedEvents
        /\ processedEvents[id] >= req[r].checkedAt

\* C22 amended: the cache holds, for every event id, the time of the most
\* recent delivery of that id that was not answered as a duplicate; a
\* duplicate delivery leaves the timestamp as it was.
C22_TimestampIsLastRecorded ==
    \A id \in EventIds :
        IF Recorders(id) = {}
        THEN id \notin DOMAIN processedEvents
        ELSE /\ id \in DOMAIN processedEvents
             /\ \E r \in Recorders(id) : processedEvents[id] = req[r].checkedAt
             /\ \A r \in Recorders(id) : processedEvents[id] >= req[r].checkedAt

\* A duplicate arrives after the recording, and the timestamp stays.
C22_Witness ==
    \E r \in Reqs, q \in Reqs :
        /\ req[q].dlv.id = req[r].dlv.id
        /\ q \in Recorders(req[q].dlv.id)
        /\ req[r].body = "duplicate"
        /\ req[r].checkedAt > req[q].checkedAt
        /\ processedEvents[req[r].dlv.id] = req[q].checkedAt

\* Delivery r carries a subscription event whose customer has no connection,
\* and its processing has been attempted.
UnlinkedSubscription(r) ==
    /\ req[r].outcomes # << >>
    /\ req[r].dlv.type \in SubscriptionTypes
    /\ req[r].dlv.obj.id # "none"
    /\ req[r].dlv.obj.customer = "cus_B"

\* C23: a subscription event whose customer has no connection is processed
\* once, without error and without writing a subscription row, and the
\* delivery is acknowledged as a success with no retry and no wait.
C23_UnlinkedCustomerAcknowledged ==
    \A r \in Reqs :
        UnlinkedSubscription(r) =>
            /\ req[r].outcomes = <<"none">>
            /\ req[r].rows = 0
            /\ req[r].waits = << >>
            /\ req[r].retryCount = 0
            /\ Done(r)
            /\ req[r].status = 200
            /\ req[r].body = "success"
            /\ \A i \in DOMAIN subscriptions : subscriptions[i].user_id # "cus_B"

C23_Witness ==
    \E r \in Reqs :
        /\ UnlinkedSubscription(r)
        /\ Done(r)
        /\ req[r].body = "success"
        /\ req[r].handlerRuns = 1
        /\ subscriptions = << >>

\* C24: the subscriptions table holds at most one row for each
\* stripe_subscription_id, whatever subscription events have been processed.
C24_OneRowPerSubscription ==
    \A i \in DOMAIN subscriptions, j \in DOMAIN subscriptions :
        subscriptions[i].stripe_subscription_id = subscriptions[j].stripe_subscription_id
            => i = j

InternalStatuses ==
    {"active", "cancelled", "incomplete", "incomplete_expired", "past_due",
     "trialing", "unpaid", "unknown"}
RecognisedStatuses ==
    {"active", "canceled", "incomplete", "incomplete_expired", "past_due",
     "trialing", "unpaid"}
Counterpart(s) == IF s = "canceled" THEN "cancelled" ELSE s

\* C25: mapStripeStatus gives, for every provider status string, a member of
\* the internal status enum: the counterpart of a recognised status and
\* 'unknown' for every other string.
C25_StatusMapsIntoEnum ==
    \A i \in DOMAIN mapped :
        LET m == mapped[i]
        IN  /\ m.result.kind = "string"
            /\ m.result.value \in InternalStatuses
            /\ m.result.value = IF m.status \in RecognisedStatuses
                                THEN Counterpart(m.status)
                                ELSE "unknown"

\* Delivery q passed the idempotency check and then ended in a failure:
\* 'processing_failed', 400 'Invalid event structure' or 500.
EndedInFailure(q) ==
    /\ Done(q)
    /\ req[q].order > 0
    /\ req[q].body \in {"processing_failed", "invalid_structure", "internal_error"}

\* C26: the event id is recorded before processing and stays recorded when
\* the delivery fails: a delivery of the same id that reaches the check less
\* than 24 hours after the failed one is answered 200 'duplicate' and has no
\* side effect.
C26_FailedEventStaysRecorded ==
    /\ \A q \in Reqs :
        (req[q].pc \in {"client", "attempt", "backoff"} \/ EndedInFailure(q)) =>
            /\ req[q].dlv.id \in DOMAIN processedEvents
            /\ processedEvents[req[q].dlv.id] >= req[q].checkedAt
    /\ \A q \in Reqs, r \in Reqs :
        (/\ EndedInFailure(q)
         /\ req[r].order > req[q].order
         /\ req[r].dlv.id = req[q].dlv.id
         /\ req[r].checkedAt - req[q].checkedAt < WEBHOOK_IDEMPOTENCY_WINDOW) =>
            /\ Done(r)
            /\ req[r].status = 200
            /\ req[r].body = "duplicate"
            /\ NoSideEffect(r)

C26_Witness ==
    \E q \in Reqs, r \in Reqs :
        /\ req[q].body = "processing_failed"
        /\ Len(req[q].startedAt) = MAX_RETRY_ATTEMPTS
        /\ req[r].dlv.id = req[q].dlv.id
        /\ req[r].startTime >= req[q].startTime + req[q].startedAt[MAX_RETRY_ATTEMPTS]
        /\ req[r].order > req[q].order
        /\ req[r].body = "duplicate"

\* The deliveries of event id that reached the idempotency check did so
\* within one idempotency window.
WithinOneWindow(id) ==
    \A r \in Seen(id), q \in Seen(id) :
        req[r].checkedAt - req[q].checkedAt < WEBHOOK_IDEMPOTENCY_WINDOW

\* C27: of the deliveries of one event id that reach the idempotency check
\* within one window, however their steps interleave, exactly one proceeds
\* past the check (the first to reach it) and every other one is answered
\* 'duplicate'.
C27_ExactlyOneProceeds ==
    \A id \in EventIds :
        (Seen(id) # {} /\ WithinOneWindow(id)) =>
            /\ Cardinality(Recorders(id)) = 1
            /\ \A r \in Seen(id), q \in Recorders(id) : req[q].order <= req[r].order
            /\ \A r \in Seen(id) \ Recorders(id) :
                /\ Done(r)
                /\ req[r].status = 200
                /\ NoSideEffect(r)

\* Two deliveries of one event arrived at the same time; the second was
\* answered 'duplicate' while the first was still being processed.
C27_Witness ==
    \E q \in Reqs, r \in Reqs :
        /\ req[q].pc \in {"attempt", "backoff"}
        /\ req[r].dlv.id = req[q].dlv.id
        /\ req[r].startTime = req[q].startTime
        /\ req[r].order = req[q].order + 1
        /\ req[r].body = "duplicate"

\* The request checks in the order the claim gives them (with the reading of
\* the body, which comes between the signature header and the size), and the
\* answer of the first one that fails.
FirstFailingCheck(d) ==
    IF ~d.ua THEN Rejected(401, "unauthorized")
    ELSE IF ~d.ct THEN Rejected(400, "invalid_content_type")
    ELSE IF d.sig = "missing" THEN Rejected(400, "no_signature")
    ELSE IF ~d.readable THEN Rejected(400, "invalid_body")
    ELSE IF d.len > MaxBodyLength THEN Rejected(413, "too_large")
    ELSE IF d.sig # "valid" THEN Rejected(400, "invalid_signature")
    ELSE Passed

FailsACheck(r) == req[r].pc # "idle" /\ FirstFailingCheck(req[r].dlv) # Passed

\* C28: the request checks run in the order User-Agent, Content-Type,
\* signature presence, body size, signature verification, and the first
\* failing one answers: a delivery with a bad User-Agent is answered 401
\* even when validly signed.  A rejected delivery never reaches the
\* idempotency check and leaves the cache unchanged.
C28_FirstFailingCheckAnswers ==
    /\ [](\A r \in Reqs :
            FailsACheck(r) =>
                /\ req[r].order = 0
                /\ NoSideEffect(r)
                /\ Done(r) =>
                    /\ req[r].status = FirstFailingCheck(req[r].dlv).status
                    /\ req[r].body = FirstFailingCheck(req[r].dlv).body)
    /\ [][\A r \in Reqs :
            (FailsACheck(r)' /\ req'[r] # req[r]) =>
                processedEvents' = processedEvents]_vars

C28_Witness ==
    \E r \in Reqs, q \in Reqs :
        /\ Done(r) /\ ~req[r].dlv.ua /\ req[r].dlv.sig = "valid"
        /\ req[r].status = 401
        /\ Done(q) /\ ~req[q].dlv.ua /\ req[q].dlv.sig = "missing"
        /\ req[q].status = 401
        /\ processedEvents = << >>

\* An error whose message contains 401, 403, 400 or 422.
ClientError(o) ==
    /\ ~o.ok
    /\ CodesIn(o.message) \cap {"401", "403", "400", "422"} # {}

RetryEnded == retry.pc \in {"returned", "thrown"}

\* C29: retryRequest terminates; it calls requestFn at most maxRetries + 1
\* times, returns the result of the first call that succeeds, makes no call
\* after an error whose message contains 401, 403, 400 or 422 and rethrows
\* that error, and otherwise rethrows the last error after the final attempt.
C29_RetryTerminates ==
    /\ [](/\ retry.started <= retry.maxRetries + 1
          /\ Len(retry.settled) <= retry.started
          /\ \A i \in DOMAIN retry.settled :
                i < retry.started =>
                    ~retry.settled[i].ok /\ ~ClientError(retry.settled[i])
          /\ retry.pc = "returned" =>
                /\ Len(retry.settled) = retry.started
                /\ retry.settled[retry.started].ok
                /\ retry.result = retry.settled[retry.started]
          /\ retry.pc = "thrown" =>
                /\ Len(retry.settled) = retry.started
                /\ ~retry.settled[retry.started].ok
                /\ retry.thrown = retry.settled[retry.started]
                /\ \/ ClientError(retry.thrown)
                   \/ retry.started = retry.maxRetries + 1
          /\ (/\ Len(retry.settled) = retry.started
              /\ retry.started > 0
              /\ \/ retry.settled[retry.started].ok
                 \/ ClientError(retry.settled[retry.started]))
             => RetryEnded)
    /\ <>RetryEnded

\* All maxRetries + 1 calls were made and failed, the last error was thrown.
C29_Witness ==
    /\ retry.pc = "thrown"
    /\ retry.maxRetries = MaxRetriesTried
    /\ retry.started = retry.maxRetries + 1
    /\ retry.settled[1] = ThrownError("HTTP 429")
    /\ retry.settled[2] = ThrownError("Request timeout")
    /\ retry.thrown = retry.settled[retry.started]
    /\ Len(retry.delays) = retry.maxRetries

\* C30: every action queued with queueAction is executed exactly once, in
\* the order of queueing: no action is called twice, the calls follow the
\* queue order, and an action not yet called is still pending.
C30_ExecutedOnceInOrder ==
    /\ \A i \in DOMAIN handler.executed, j \in DOMAIN handler.executed :
            i < j => handler.executed[i] < handler.executed[j]
    /\ \A id \in 1..handler.queued :
            \/ \E i \in DOMAIN handler.executed : handler.executed[i] = id
            \/ \E i \in DOMAIN handler.pendingActions : handler.pendingActions[i] = id

====
